---- MODULE Spec2Model ----
(***************************************************************************)
(* Climate App (src/app.py): a read-only Flask API over the measurement    *)
(* and station tables of hawaii.sqlite.  The module models the two tables, *)
(* the ORM sessions a handler opens and closes, and the six route          *)
(* handlers, with dates kept as the TEXT values the database stores.       *)
(***************************************************************************)
EXTENDS Integers, Sequences, FiniteSets, TLC

VARIABLES measurement, station, open, acquired, response, padsYear

vars == <<measurement, station, open, acquired, response, padsYear>>

(***************************************************************************)
(* Bounds of the model.                                                    *)
(***************************************************************************)
MaxRows == 3
MaxOpen == 2

(***************************************************************************)
(* Text: a string is a sequence of one-character strings.  CharCode gives  *)
(* the code point that Python's str comparison and SQLite's BINARY         *)
(* collation order by.                                                     *)
(***************************************************************************)
Digits == <<"0", "1", "2", "3", "4", "5", "6", "7", "8", "9">>

IsDigit(c) == \E i \in 1..10 : Digits[i] = c

DigitVal(c) == (CHOOSE i \in 1..10 : Digits[i] = c) - 1

CharCode(c) ==
  CASE c = " " -> 32
    [] c = "-" -> 45
    [] c = "." -> 46
    [] c = "/" -> 47
    [] IsDigit(c) -> 48 + DigitVal(c)
    [] c = ":" -> 58
    [] c = "S" -> 83
    [] OTHER -> 97

Min2(a, b) == IF a < b THEN a ELSE b

\* a < b for text: the first differing character decides, else the shorter
\* text is the smaller one.
TextLess(a, b) ==
  LET n == Min2(Len(a), Len(b))
      diff == {i \in 1..n : a[i] # b[i]}
  IN  IF diff = {}
        THEN Len(a) < Len(b)
        ELSE LET k == CHOOSE i \in diff : \A j \in diff : i <= j
             IN  CharCode(a[k]) < CharCode(b[k])

TextGe(a, b) == ~TextLess(a, b)

TextLe(a, b) == ~TextLess(b, a)

\* zero-padded decimal of n in w digits (w <= 6)
Pow10(k) == CASE k = 0 -> 1 [] k = 1 -> 10 [] k = 2 -> 100 [] k = 3 -> 1000
              [] k = 4 -> 10000 [] k = 5 -> 100000 [] OTHER -> 1000000

Pad(n, w) == [i \in 1..w |-> Digits[((n \div Pow10(w - i)) % 10) + 1]]

\* decimal of n without padding (n < 10000)
Unpadded(n) ==
  IF n >= 1000 THEN Pad(n, 4)
  ELSE IF n >= 100 THEN Pad(n, 3)
  ELSE IF n >= 10 THEN Pad(n, 2)
  ELSE Pad(n, 1)

(***************************************************************************)
(* Calendar.                                                               *)
(***************************************************************************)
IsLeap(y) == (y % 4 = 0) /\ ((y % 100 # 0) \/ (y % 400 = 0))

DaysInMonth(y, m) ==
  IF m = 2 THEN (IF IsLeap(y) THEN 29 ELSE 28)
  ELSE IF m \in {4, 6, 9, 11} THEN 30
  ELSE 31

\* the ValueError of strptime / validate_date
ValueError == [error |-> "ValueError"]

(***************************************************************************)
(* datetime.strptime(text, "%Y-%m-%d").  The format compiles to the regex  *)
(*   (\d\d\d\d)-(1[0-2]|0[1-9]|[1-9])-(3[0-1]|[1-2]\d|0[1-9]|[1-9]| [1-9]) *)
(* matched at the start of the text; the alternatives are tried in order,  *)
(* text left over after the match is an error, and so is a year, month,    *)
(* day triple that is not a date.                                          *)
(***************************************************************************)
At(t, i) == IF i >= 1 /\ i <= Len(t) THEN t[i] ELSE ""

InRange(c, lo, hi) == IsDigit(c) /\ DigitVal(c) >= lo /\ DigitVal(c) <= hi

\* lengths of the month alternatives that match at position i, in order
MonthAlts(t, i) ==
  (IF At(t, i) = "1" /\ InRange(At(t, i + 1), 0, 2) THEN <<2>> ELSE <<>>)
  \o (IF At(t, i) = "0" /\ InRange(At(t, i + 1), 1, 9) THEN <<2>> ELSE <<>>)
  \o (IF InRange(At(t, i), 1, 9) THEN <<1>> ELSE <<>>)

\* lengths of the day alternatives that match at position i, in order
DayAlts(t, i) ==
  (IF At(t, i) = "3" /\ InRange(At(t, i + 1), 0, 1) THEN <<2>> ELSE <<>>)
  \o (IF InRange(At(t, i), 1, 2) /\ IsDigit(At(t, i + 1)) THEN <<2>> ELSE <<>>)
  \o (IF At(t, i) = "0" /\ InRange(At(t, i + 1), 1, 9) THEN <<2>> ELSE <<>>)
  \o (IF InRange(At(t, i), 1, 9) THEN <<1>> ELSE <<>>)
  \o (IF At(t, i) = " " /\ InRange(At(t, i + 1), 1, 9) THEN <<2>> ELSE <<>>)

\* int() of the characters i .. i+n-1 of t, a leading blank skipped
IntOf(t, i, n) ==
  LET v(k) == IF IsDigit(At(t, k)) THEN DigitVal(At(t, k)) ELSE 0
  IN  CASE n = 1 -> v(i)
        [] n = 2 -> 10 * v(i) + v(i + 1)
        [] OTHER -> 1000 * v(i) + 100 * v(i + 1) + 10 * v(i + 2) + v(i + 3)

strptime(t) ==
  IF ~(\A i \in 1..4 : IsDigit(At(t, i))) \/ At(t, 5) # "-"
    THEN ValueError
    ELSE
      LET malts == MonthAlts(t, 6)
          \* a month alternative is kept when the rest of the regex matches
          ok(k) == At(t, 6 + malts[k]) = "-" /\ DayAlts(t, 7 + malts[k]) # <<>>
          good == {k \in 1..Len(malts) : ok(k)}
      IN  IF good = {}
            THEN ValueError
            ELSE
              LET k == CHOOSE x \in good : \A z \in good : x <= z
                  ml == malts[k]
                  dl == DayAlts(t, 7 + ml)[1]
                  end == 6 + ml + dl
                  y == IntOf(t, 1, 4)
                  m == IntOf(t, 6, ml)
                  d == IntOf(t, 7 + ml, dl)
              IN  IF end # Len(t) THEN ValueError
                  ELSE IF y < 1 \/ d > DaysInMonth(y, m) THEN ValueError
                  ELSE [year |-> y, month |-> m, day |-> d]

\* strftime("%Y-%m-%d"): %m and %d are zero-padded; %Y is the C library's,
\* which pads a year below 1000 on some platforms and not on others (glibc).
strftime(dt, pads) ==
  (IF pads THEN Pad(dt.year, 4) ELSE Unpadded(dt.year))
  \o <<"-">> \o Pad(dt.month, 2) \o <<"-">> \o Pad(dt.day, 2)

\* date.isoformat(): always four year digits
isoformat(dt) ==
  Pad(dt.year, 4) \o <<"-">> \o Pad(dt.month, 2) \o <<"-">> \o Pad(dt.day, 2)

\* faulty variant: the parsed date is not compared with the text
validate_date_parse_only(date_text, pads) == strptime(date_text) # ValueError

validate_date(date_text, pads) ==
  LET p == strptime(date_text)
  IN  IF p = ValueError THEN FALSE
      ELSE IF date_text # strftime(p, pads) THEN FALSE
      ELSE TRUE

(***************************************************************************)
(* Values: a nullable value is <<>> (NULL / None) or <<v>>.                *)
(***************************************************************************)
Null == <<>>

Some(v) == <<v>>

\* date - relativedelta(years=1): the year before, the day clipped to the
\* last day of the month
minus_one_year(d) ==
  [year |-> d.year - 1, month |-> d.month,
   day |-> Min2(d.day, DaysInMonth(d.year - 1, d.month))]

\* A datetime bound into a comparison with the TEXT column measurement.date
\* is rendered by the SQLite dialect as 'YYYY-MM-DD HH:MM:SS.ffffff'.
bind_datetime(dt) ==
  isoformat(dt) \o <<" ">> \o Pad(0, 2) \o <<":">> \o Pad(0, 2) \o <<":">>
  \o Pad(0, 2) \o <<".">> \o Pad(0, 6)

(***************************************************************************)
(* Aggregates over a set of row numbers of the measurement table.          *)
(***************************************************************************)
RECURSIVE SumTobs(_, _)
SumTobs(tbl, S) ==
  IF S = {} THEN 0
  ELSE LET i == CHOOSE x \in S : TRUE
       IN  tbl[i].tobs + SumTobs(tbl, S \ {i})

func_min(tbl, S) ==
  IF S = {} THEN Null
  ELSE Some(tbl[CHOOSE i \in S : \A j \in S : tbl[i].tobs <= tbl[j].tobs].tobs)

func_max(tbl, S) ==
  IF S = {} THEN Null
  ELSE Some(tbl[CHOOSE i \in S : \A j \in S : tbl[i].tobs >= tbl[j].tobs].tobs)

\* round(avg(tobs)): SQLite rounds halves away from zero; tobs are >= 0 here
func_round_avg(tbl, S) ==
  IF S = {} THEN Null
  ELSE LET n == Cardinality(S)
       IN  Some((2 * SumTobs(tbl, S) + n) \div (2 * n))

\* the orders in which the rows S can come back under ORDER BY, before being
\* the pairs <<x, y>> of which x sorts strictly before y: every arrangement
\* in which no row precedes one that sorts strictly before it
Orderings(S, before) ==
  LET n == Cardinality(S)
  IN  {p \in [1..n -> S] :
         /\ \A a, b \in 1..n : a # b => p[a] # p[b]
         /\ \A a, b \in 1..n : a < b => <<p[b], p[a]>> \notin before}

(***************************************************************************)
(* Queries of the handlers.                                                *)
(***************************************************************************)
\* session.query(Measurement.date).order_by(Measurement.date.desc()).first()
max_date_query(tbl) ==
  IF tbl = <<>> THEN Null
  ELSE Some(tbl[CHOOSE i \in DOMAIN tbl :
                  \A j \in DOMAIN tbl : TextGe(tbl[i].date, tbl[j].date)].date)

\* (strptime(max_date[0]).date() - relativedelta(years=1)).isoformat()
previous_year_date(max_date) == isoformat(minus_one_year(strptime(max_date[1])))

\* faulty variant: the date one year before is left out
precipitation_rows_strict(tbl, prev) ==
  {i \in DOMAIN tbl : TextLess(prev, tbl[i].date)}

\* .filter(Measurement.date >= previous_year_date)
precipitation_rows(tbl, prev) ==
  {i \in DOMAIN tbl : TextGe(tbl[i].date, prev)}

\* .order_by(Measurement.date.desc(), Measurement.station.desc())
precipitation_before(tbl, i, j) ==
  \/ TextLess(tbl[j].date, tbl[i].date)
  \/ tbl[i].date = tbl[j].date /\ TextLess(tbl[j].station, tbl[i].station)

\* station ids of the measurement table
measurement_stations(tbl) == {tbl[i].station : i \in DOMAIN tbl}

station_count(tbl, st) == Cardinality({i \in DOMAIN tbl : tbl[i].station = st})

\* faulty variant: the counts are ordered ascending
most_active_candidates_asc(tbl) ==
  {st \in measurement_stations(tbl) :
     \A o \in measurement_stations(tbl) :
        station_count(tbl, st) <= station_count(tbl, o)}

\* group_by(station).order_by(count.desc()).first(): a station of highest
\* count; which one among equals is the engine's choice
most_active_candidates(tbl) ==
  {st \in measurement_stations(tbl) :
     \A o \in measurement_stations(tbl) :
        station_count(tbl, st) >= station_count(tbl, o)}

\* .filter(station == most_active).filter(date >= previous_year_date)
tobs_rows(tbl, st, prev) ==
  {i \in DOMAIN tbl : tbl[i].station = st /\ TextGe(tbl[i].date, prev)}

\* .order_by(Measurement.station.asc(), Measurement.date.asc())
tobs_before(tbl, i, j) ==
  \/ TextLess(tbl[i].station, tbl[j].station)
  \/ tbl[i].station = tbl[j].station /\ TextLess(tbl[i].date, tbl[j].date)

\* stations(): measurement joined to station on the identifier, one row per
\* group of Measurement.station, the name taken from a joined row of the group
stations_groups(tbl, stn) ==
  {st \in measurement_stations(tbl) : \E s \in stn : s.station = st}

\* faulty variant: the identifiers are ordered descending
stations_before_desc(a, b) == TextLess(b, a)

\* .order_by(Measurement.station.asc())
stations_before(a, b) == TextLess(a, b)

stations_names(stn, st) == {s.name : s \in {x \in stn : x.station = st}}

\* faulty variant: the comparison is turned around
start_rows_reversed(tbl, start_date) ==
  {i \in DOMAIN tbl : TextLe(tbl[i].date, bind_datetime(start_date))}

\* start(): .filter(Measurement.date >= start_date), start_date a datetime
start_rows(tbl, start_date) ==
  {i \in DOMAIN tbl : TextGe(tbl[i].date, bind_datetime(start_date))}

\* faulty variant: the minimum and maximum are bounded by end_date as the average is
start_end_rows_until_end(tbl, start_date, end_date) ==
  {i \in DOMAIN tbl :
     /\ TextGe(tbl[i].date, bind_datetime(start_date))
     /\ TextLe(tbl[i].date, bind_datetime(end_date))}

\* start_end(): the filter of min_temp and max_temp, which does not use
\* end_date
start_end_rows(tbl, start_date, end_date) ==
  {i \in DOMAIN tbl : TextGe(tbl[i].date, bind_datetime(start_date))}

\* start_end(): the filter of avg_temp, date BETWEEN start_date AND end_date
start_end_between(tbl, start_date, end_date) ==
  {i \in DOMAIN tbl :
     /\ TextGe(tbl[i].date, bind_datetime(start_date))
     /\ TextLe(tbl[i].date, bind_datetime(end_date))}

\* the three-object body of the date routes
temp_body(mn, av, mx) ==
  <<[key |-> "Minimum Temp", value |-> mn],
    [key |-> "Average Temp", value |-> av],
    [key |-> "Maximum Temp", value |-> mx]>>

\* the fixed parts of an error message, each held as a one-element text
Lit(s) == <<s>>

(***************************************************************************)
(* Request inputs and datasets of the model.                               *)
(***************************************************************************)
Date(y, m, d) == [year |-> y, month |-> m, day |-> d]

\* dates of the measurement rows
DataDates ==
  {Date(2015, 2, 27), Date(2015, 2, 28), Date(2016, 2, 28), Date(2016, 2, 29)}

\* path parameters of the date routes: three dates in canonical form, an
\* impossible day, an unpadded date and a date of a three-digit year
ReqTexts ==
  {isoformat(Date(2015, 2, 28)), isoformat(Date(2016, 2, 28)),
   isoformat(Date(2016, 3, 1)), isoformat(Date(2020, 2, 30)),
   Pad(2016, 4) \o <<"-">> \o Pad(2, 1) \o <<"-">> \o Pad(28, 2)}

STN1 == <<"S", "1">>

STN2 == <<"S", "2">>

STN3 == <<"S", "3">>

Row(st, dt, pr, tb) == [station |-> st, date |-> isoformat(dt), prcp |-> pr, tobs |-> tb]

\* a total order on rows, used to keep one table per multiset of rows
RowKey(r) ==
  r.date \o <<" ">> \o r.station \o <<" ">> \o Pad(r.tobs, 3) \o <<" ">>
  \o (IF r.prcp = Null THEN <<>> ELSE Pad(r.prcp[1], 3))

Tables(R, n) ==
  UNION {{t \in [1..k -> R] :
            \A i \in 1..(k - 1) : TextLe(RowKey(t[i]), RowKey(t[i + 1]))} :
         k \in 0..n}

StationTables(Ids, Names) == SUBSET [station : Ids, name : Names]

NoResponse == [route |-> "", args |-> <<>>, status |-> 0, body |-> <<>>]

\* P: the platforms, TRUE where strftime pads %Y to four digits
InitWith(R, n, T, P) ==
  /\ measurement \in Tables(R, n)
  /\ station \in T
  /\ open = 0
  /\ acquired = 0
  /\ response = NoResponse
  /\ padsYear \in P

FullStations == {[station |-> STN1, name |-> "WAIKIKI"], [station |-> STN2, name |-> "KANEOHE"]}

\* both stations, two dates, both kinds of precipitation, two temperatures
Init ==
  InitWith({Row(st, dt, pr, tb) : st \in {STN1, STN2},
                                  dt \in {Date(2015, 2, 28), Date(2016, 2, 29)},
                                  pr \in {Null, Some(1)}, tb \in {60, 63}},
           MaxRows - 1, {FullStations}, BOOLEAN)

\* one station, every date, three temperatures
InitTemps ==
  InitWith({Row(STN1, dt, Null, tb) : dt \in DataDates, tb \in {60, 61, 63}},
           MaxRows, {FullStations}, {FALSE})

\* both stations, every date, both kinds of precipitation
InitPrcp ==
  InitWith({Row(st, dt, pr, 60) : st \in {STN1, STN2}, dt \in DataDates,
                                  pr \in {Null, Some(1)}},
           MaxRows, {FullStations}, {FALSE})

\* both stations, every date, two temperatures
InitTobs ==
  InitWith({Row(st, dt, Null, tb) : st \in {STN1, STN2}, dt \in DataDates,
                                    tb \in {60, 63}},
           MaxRows, {FullStations}, {FALSE})

\* three stations on one date, every station table over two names
InitStations ==
  InitWith({Row(st, Date(2016, 2, 29), Null, 60) : st \in {STN1, STN2, STN3}},
           MaxRows, StationTables({STN1, STN2, STN3}, {"WAIKIKI", "KANEOHE"}), {FALSE})

(***************************************************************************)
(* The handlers.  A handler that reaches Session(engine) opens a session   *)
(* (open + 1) and session.close() releases it (open - 1); a fault between  *)
(* the two leaves the session open.  acquired counts the sessions the      *)
(* request opened.                                                         *)
(***************************************************************************)
\* no request is being answered
Idle == response = NoResponse

Respond(route, args, status, body) ==
  response' = [route |-> route, args |-> args, status |-> status, body |-> body]

Fault(route, args, exc) ==
  /\ Respond(route, args, 500, Lit(exc))
  /\ open' = open + 1
  /\ acquired' = 1

Home ==
  /\ Idle
  /\ Respond("Home", <<>>, 200, Lit("Welcome to the Hawaii Weather Home page!"))
  /\ acquired' = 0
  /\ UNCHANGED <<measurement, station, open, padsYear>>

precipitation ==
  /\ Idle
  /\ open < MaxOpen
  /\ LET max_date == max_date_query(measurement)
     IN  IF max_date = Null
           THEN Fault("precipitation", <<>>, "TypeError")
         ELSE IF strptime(max_date[1]) = ValueError
           THEN Fault("precipitation", <<>>, "ValueError")
         ELSE
           LET prev == previous_year_date(max_date)
               rows == precipitation_rows(measurement, prev)
               before == {o \in rows \X rows :
                            precipitation_before(measurement, o[1], o[2])}
           IN  \E measurement_result \in Orderings(rows, before) :
                 /\ Respond("precipitation", <<>>, 200,
                      [k \in DOMAIN measurement_result |->
                         [Date |-> measurement[measurement_result[k]].date,
                          Precipitation |-> measurement[measurement_result[k]].prcp]])
                 /\ open' = (open + 1) - 1
                 /\ acquired' = 1
  /\ UNCHANGED <<measurement, station, padsYear>>

stations ==
  /\ Idle
  /\ open < MaxOpen
  /\ LET groups == stations_groups(measurement, station)
         before == {o \in groups \X groups : stations_before(o[1], o[2])}
     IN  \E station_result \in Orderings(groups, before) :
         \E names \in [groups -> {s.name : s \in station}] :
           /\ \A st \in groups : names[st] \in stations_names(station, st)
           /\ Respond("stations", <<>>, 200,
                [k \in DOMAIN station_result |->
                   [Station |-> station_result[k],
                    StationName |-> names[station_result[k]]]])
  /\ open' = (open + 1) - 1
  /\ acquired' = 1
  /\ UNCHANGED <<measurement, station, padsYear>>

tobs ==
  /\ Idle
  /\ open < MaxOpen
  /\ LET max_date == max_date_query(measurement)
     IN  IF max_date = Null
           THEN Fault("tobs", <<>>, "TypeError")
         ELSE IF strptime(max_date[1]) = ValueError
           THEN Fault("tobs", <<>>, "ValueError")
         ELSE
           LET prev == previous_year_date(max_date)
           IN  \E most_active \in most_active_candidates(measurement) :
               \E tobs_result \in
                    LET rows == tobs_rows(measurement, most_active, prev)
                    IN  Orderings(rows, {o \in rows \X rows :
                                           tobs_before(measurement, o[1], o[2])}) :
                 /\ Respond("tobs", <<>>, 200,
                      [k \in DOMAIN tobs_result |->
                         [Station |-> measurement[tobs_result[k]].station,
                          Date |-> measurement[tobs_result[k]].date,
                          Tobs |-> measurement[tobs_result[k]].tobs]])
                 /\ open' = (open + 1) - 1
                 /\ acquired' = 1
  /\ UNCHANGED <<measurement, station, padsYear>>

start_error(start_dt) ==
  <<Lit("Please, specify the date in 'YYYY-MM-DD' format: The entered date '"),
    start_dt, Lit("' is not valid.")>>

\* the queries of start() and its result list
start_body(tbl, start_dt) ==
  LET start_date == strptime(start_dt)
      rows == start_rows(tbl, start_date)
  IN  temp_body(func_min(tbl, rows), func_round_avg(tbl, rows), func_max(tbl, rows))

start(start_dt) ==
  /\ Idle
  /\ IF ~validate_date(start_dt, padsYear)
       THEN /\ Respond("start", <<start_dt>>, 404, start_error(start_dt))
            /\ acquired' = 0
            /\ open' = open
       ELSE /\ open < MaxOpen
            /\ Respond("start", <<start_dt>>, 200, start_body(measurement, start_dt))
            /\ open' = (open + 1) - 1
            /\ acquired' = 1
  /\ UNCHANGED <<measurement, station, padsYear>>

start_end_error_start(start_dt) ==
  <<Lit("Please, specify the start date in 'YYYY-MM-DD' format: The entered date '"),
    start_dt, Lit("' is not valid.")>>

start_end_error_end(end_dt) ==
  <<Lit("Please, specify the end date in 'YYYY-MM-DD' format: The entered date '"),
    end_dt, Lit("' is not valid.")>>

start_end_error_range(start_dt, end_dt) ==
  <<Lit("Please, specify start date less then end date. The dates entered are '"),
    start_dt, Lit("' and '"), end_dt, Lit("'")>>

\* faulty variant: an end equal to the start is refused too
end_not_after_start(start_dt, end_dt) == TextLe(end_dt, start_dt)

\* if end_dt < start_dt, on the path parameters as given
end_before_start(start_dt, end_dt) == TextLess(end_dt, start_dt)

\* the queries of start_end() and its result list
start_end_body(tbl, start_dt, end_dt) ==
  LET start_date == strptime(start_dt)
      end_date == strptime(end_dt)
      rows == start_end_rows(tbl, start_date, end_date)
      between == start_end_between(tbl, start_date, end_date)
  IN  temp_body(func_min(tbl, rows), func_round_avg(tbl, between), func_max(tbl, rows))

start_end(start_dt, end_dt) ==
  /\ Idle
  /\ IF ~validate_date(start_dt, padsYear)
       THEN /\ Respond("start_end", <<start_dt, end_dt>>, 404,
                 start_end_error_start(start_dt))
            /\ acquired' = 0
            /\ open' = open
     ELSE IF ~validate_date(end_dt, padsYear)
       THEN /\ Respond("start_end", <<start_dt, end_dt>>, 404,
                 start_end_error_end(end_dt))
            /\ acquired' = 0
            /\ open' = open
     ELSE IF end_before_start(start_dt, end_dt)
       THEN /\ Respond("start_end", <<start_dt, end_dt>>, 404,
                 start_end_error_range(start_dt, end_dt))
            /\ acquired' = 0
            /\ open' = open
     ELSE /\ open < MaxOpen
          /\ Respond("start_end", <<start_dt, end_dt>>, 200,
               start_end_body(measurement, start_dt, end_dt))
          /\ open' = (open + 1) - 1
          /\ acquired' = 1
  /\ UNCHANGED <<measurement, station, padsYear>>

\* the transport sends the response; the server waits for the next request
Deliver ==
  /\ ~Idle
  /\ response' = NoResponse
  /\ acquired' = 0
  /\ UNCHANGED <<measurement, station, open, padsYear>>

Next ==
  \/ Deliver
  \/ Home
  \/ precipitation
  \/ stations
  \/ tobs
  \/ \E start_dt \in ReqTexts : start(start_dt)
  \/ \E start_dt \in ReqTexts, end_dt \in ReqTexts : start_end(start_dt, end_dt)

Spec == Init /\ [][Next]_vars

SpecTemps == InitTemps /\ [][Next]_vars

SpecPrcp == InitPrcp /\ [][Next]_vars

SpecTobs == InitTobs /\ [][Next]_vars

SpecStations == InitStations /\ [][Next]_vars

(***************************************************************************)
(* validate_date on its own: the texts are a year, a separator, a month,   *)
(* a separator and a day, each part well formed or not.                    *)
(***************************************************************************)
YearParts == {Pad(2020, 4), Pad(2019, 4), Pad(999, 4), Pad(0, 4), Pad(20, 2),
              <<"a", "b", "c", "d">>}

Separators == {<<"-">>, <<"/">>}

MonthParts == {Pad(1, 2), Pad(1, 1), Pad(2, 2), Pad(2, 1), Pad(12, 2), Pad(13, 2),
               Pad(0, 2), <<"e", "f">>}

DayParts == {Pad(1, 2), Pad(1, 1), Pad(28, 2), Pad(29, 2), Pad(30, 2), Pad(31, 2),
             Pad(32, 2), Pad(0, 2), <<" ", "1">>, Pad(11, 3), <<"g", "h">>}

DateTexts ==
  {y \o s1 \o m \o s2 \o d :
     y \in YearParts, s1 \in Separators, m \in MonthParts, s2 \in Separators,
     d \in DayParts}

InitValidate ==
  /\ measurement = <<>>
  /\ station = {}
  /\ open = 0
  /\ acquired = 0
  /\ response = NoResponse
  /\ padsYear \in BOOLEAN

\* a call of validate_date(date_text) and the value it returns
call_validate_date(date_text) ==
  /\ Idle
  /\ Respond("validate_date", <<date_text>>, 0, <<validate_date(date_text, padsYear)>>)
  /\ UNCHANGED <<measurement, station, open, acquired, padsYear>>

NextValidate == \E date_text \in DateTexts : call_validate_date(date_text)

SpecValidate == InitValidate /\ [][NextValidate]_vars

TypeOK == open \in 0..MaxOpen /\ acquired \in {0, 1}

(***************************************************************************)
(* Properties.  The calendar side of a property reads a date text by its   *)
(* year, month and day numbers, not by text comparison.                    *)
(***************************************************************************)
\* t is ten characters, digits around two hyphens, naming a day that exists
IsCanonicalDate(t) ==
  /\ Len(t) = 10
  /\ \A i \in {1, 2, 3, 4, 6, 7, 9, 10} : IsDigit(t[i])
  /\ t[5] = "-" /\ t[8] = "-"
  /\ IntOf(t, 1, 4) >= 1
  /\ IntOf(t, 6, 2) \in 1..12
  /\ IntOf(t, 9, 2) \in 1..DaysInMonth(IntOf(t, 1, 4), IntOf(t, 6, 2))

CalendarNum(t) == 10000 * IntOf(t, 1, 4) + 100 * IntOf(t, 6, 2) + IntOf(t, 9, 2)

\* rows dated on or after S
OnOrAfter(S) ==
  {i \in DOMAIN measurement : CalendarNum(measurement[i].date) >= CalendarNum(S)}

\* rows dated from S to E, both included
Within(S, E) ==
  {i \in DOMAIN measurement :
     /\ CalendarNum(measurement[i].date) >= CalendarNum(S)
     /\ CalendarNum(measurement[i].date) <= CalendarNum(E)}

TobsOf(R) == {measurement[i].tobs : i \in R}

IsMinOf(R, v) ==
  IF R = {} THEN v = Null
  ELSE v # Null /\ v[1] \in TobsOf(R) /\ \A w \in TobsOf(R) : v[1] <= w

IsMaxOf(R, v) ==
  IF R = {} THEN v = Null
  ELSE v # Null /\ v[1] \in TobsOf(R) /\ \A w \in TobsOf(R) : v[1] >= w

\* v is an integer nearest to the mean of the temperatures of R
IsRoundedAvgOf(R, v) ==
  IF R = {} THEN v = Null
  ELSE /\ v # Null
       /\ LET n == Cardinality(R)
              diff == SumTobs(measurement, R) - n * v[1]
          IN  2 * diff <= n /\ 2 * diff >= -n

Answered(route) == response.route = route /\ response.status = 200

\* C1: a successful start(S) returns the minimum, the rounded average and the
\* maximum of the temperatures of exactly the rows dated S or later, rows
\* dated S included.
C1_StartAggregatesFromStartInclusive ==
  Answered("start") =>
    LET R == OnOrAfter(response.args[1])
    IN  /\ IsMinOf(R, response.body[1].value)
        /\ IsRoundedAvgOf(R, response.body[2].value)
        /\ IsMaxOf(R, response.body[3].value)

\* C2: the average of a successful start_end(S, E) is the rounded average of
\* exactly the rows dated from S to E, both bounds included, and null only
\* when there is no such row.
C2_AverageOverInclusiveRange ==
  Answered("start_end") =>
    IsRoundedAvgOf(Within(response.args[1], response.args[2]), response.body[2].value)

YearBefore(n) ==
  LET y == (n \div 10000) - 1
      m == (n \div 100) % 100
      d == n % 100
      last == CHOOSE k \in 28..31 : k = DaysInMonth(y, m)
  IN  10000 * y + 100 * m + (IF d > last THEN last ELSE d)

LatestNum == CHOOSE n \in {CalendarNum(measurement[i].date) : i \in DOMAIN measurement} :
               \A j \in DOMAIN measurement : n >= CalendarNum(measurement[j].date)

\* rows in the year that ends on the latest date of the table
TrailingYear ==
  {i \in DOMAIN measurement : CalendarNum(measurement[i].date) >= YearBefore(LatestNum)}

Count(seq, x) == Cardinality({k \in DOMAIN seq : seq[k] = x})

StrictlyMostActive(st) ==
  /\ st \in measurement_stations(measurement)
  /\ \A o \in measurement_stations(measurement) \ {st} :
       station_count(measurement, st) > station_count(measurement, o)

\* C5: when one station has strictly more rows in the whole table than every
\* other, tobs returns exactly that station's rows of the trailing year, each
\* with that station's identifier, in ascending date order.
C5_TobsOfMostActiveStation ==
  Answered("tobs") =>
    \A st \in measurement_stations(measurement) :
      StrictlyMostActive(st) =>
        LET b == response.body
            W == {i \in TrailingYear : measurement[i].station = st}
            entry(i) == [Station |-> st, Date |-> measurement[i].date,
                         Tobs |-> measurement[i].tobs]
        IN  /\ \A k \in DOMAIN b : b[k].Station = st
            /\ Len(b) = Cardinality(W)
            /\ \A i \in W : Count(b, entry(i)) = Cardinality({j \in W : entry(j) = entry(i)})
            /\ \A k \in 1..(Len(b) - 1) : CalendarNum(b[k].Date) <= CalendarNum(b[k + 1].Date)

\* C5 witness: the most active station has one row before the trailing year
\* and one in it, as many as the other station has in the trailing year
C5_Witness ==
  /\ Answered("tobs")
  /\ \E st \in measurement_stations(measurement) :
       /\ StrictlyMostActive(st)
       /\ Len(response.body) = 1
       /\ Cardinality({i \in DOMAIN measurement : measurement[i].station = st}) > 1
       /\ Cardinality({i \in TrailingYear : measurement[i].station # st}) = 1

\* validate_date returned v for the text t
Validated(t, v) ==
  response.route = "validate_date" /\ response.args = <<t>> /\ response.body = <<v>>

Contains(msg, t) == \E k \in DOMAIN msg : msg[k] = t

C8_NullsWhenNothingMatches ==
  (response.route = "start" /\ validate_date(response.args[1], padsYear)
     /\ OnOrAfter(response.args[1]) = {}) =>
    /\ response.status = 200
    /\ response.body = temp_body(Null, Null, Null)

\* C8 witness: start answered for a table whose rows are all before S
C8_Witness ==
  /\ Answered("start")
  /\ measurement # <<>>
  /\ OnOrAfter(response.args[1]) = {}

\* C9: stations lists each identifier at most once, lists a station exactly
\* when a row references it and a Station record has its identifier, pairs
\* it with the name of such a record, in ascending identifier order.
C9_StationCatalog ==
  Answered("stations") =>
    LET b == response.body
    IN  /\ \A j, k \in DOMAIN b : j # k => b[j].Station # b[k].Station
        /\ {b[k].Station : k \in DOMAIN b}
             = {st \in {measurement[i].station : i \in DOMAIN measurement} :
                  \E s \in station : s.station = st}
        /\ \A k \in DOMAIN b :
             [station |-> b[k].Station, name |-> b[k].StationName] \in station
        /\ \A k \in 1..(Len(b) - 1) : TextLess(b[k].Station, b[k + 1].Station)

\* C9 witness: one station is listed, a station with a record and no rows
\* and a station with rows and no record are left out
C9_Witness ==
  /\ Answered("stations")
  /\ Len(response.body) = 1
  /\ \E s \in station : s.station \notin measurement_stations(measurement)
  /\ \E st \in measurement_stations(measurement) : \A s \in station : s.station # st

\* C10: a session a handler opened is released before the request ends on
\* every exit path, so no session is open after any sequence of requests,
\* and a date route that fails validation opens none.
C10_SessionsReleased ==
  /\ open = 0
  /\ response.status = 404 => acquired = 0

====
